---------------------------- MODULE Spec2Model ----------------------------
(* LabRxiv (src/app.py): a Streamlit page over three Google-Sheets          *)
(* worksheets (papers, interest, seen).  Every user interaction re-runs     *)
(* main(); a handler below is one such run, taken to the point where the    *)
(* script is idle again (st.rerun() included).                              *)
(*                                                                          *)
(* A worksheet is the sequence of its rows, header row first, as gspread    *)
(* stores it: clear() empties it, append_row/append_rows add after the last *)
(* row, get_all_records() reads row 1 as the keys and the rest as records.  *)
(* Of a paper row the model keeps doi, title, category and date; authors,   *)
(* abstract and link are copied like title and never read by the logic.     *)
(* Failures of the Sheets API itself are not modelled.                      *)
(*                                                                          *)
(* One browser session is modelled in full (its selectbox, toggles and      *)
(* frozen shortlist order).  The sessions of the other lab members act      *)
(* through the same handlers; their session state is not kept but drawn     *)
(* when they act, since any toggle can be set by clicking before Submit.    *)
EXTENDS Naturals, Sequences, FiniteSets, TLC

\* ---------------------------------------------------------------- bounds
\* Page length that makes the loop ask for the next page (100 in the source,
\* scaled down): a page shorter than this ends the loop.
PageSize == 2
\* Vote records the interest worksheet may hold, and dismissals the seen
\* worksheet may hold: a Submit that would write more is not taken.
MaxVotes == 3
MaxSeen == 1
\* For batch_update_all called on its own: the vote records the worksheet
\* holds before the call, and the length of all_displayed_dois.
MaxRows == 2
MaxShown == 2

\* ------------------------------------------------------ program constants
\* for i in range(5)
MaxPages == 5

\* LAB_MEMBERS: index 0 is the placeholder, the others are lab members (two
\* of the four names).
NoUser == "Select User..."
Users == {"Albert", "Brian"}
\* The member of the modelled session.  The code only compares names, so
\* which member it is makes no difference; the other sessions may be of the
\* same member or of another one.
Me == "Albert"

DOIs == {"d1", "d2"}
\* Publication dates as the API prints them, in calendar order.
Dates == <<"2024-01-01", "2024-01-02">>
\* Values datetime.now().strftime(...) may give.  The code writes a
\* timestamp and never reads one, so the handlers of the page draw it from
\* Clock; the specifications of batch_update_all alone draw it from Timestamps.
Timestamps == {"10:00:00", "10:00:01"}
Clock == {"10:00:01"}

\* What the preprint API may return as an item of a page's collection: two
\* versions of d1 (the API lists every version under the same DOI), d2 with
\* a capitalised category, an item of another category, and an item without
\* a category (p.get('category') is None).
NoneCat == "None"
ApiPapers ==
    { [doi |-> "d1", title |-> "T1",  category |-> "neuroscience", date |-> Dates[1]],
      [doi |-> "d1", title |-> "T1b", category |-> "neuroscience", date |-> Dates[2]],
      [doi |-> "d2", title |-> "T2",  category |-> "Neuroscience", date |-> Dates[2]],
      [doi |-> "d3", title |-> "T3",  category |-> "genetics",     date |-> Dates[1]],
      [doi |-> "d2", title |-> "T2x", category |-> NoneCat,        date |-> Dates[1]] }

PapersHeader == [doi |-> "doi", title |-> "title", category |-> "category", date |-> "date"]
InterestHeader == [doi |-> "doi", user |-> "user", timestamp |-> "timestamp"]
SeenHeader == [doi |-> "doi", user |-> "user"]

VARIABLES
    created,         \* the three worksheets exist
    ws_papers,       \* worksheet "papers": rows, header first
    ws_interest,     \* worksheet "interest"
    ws_seen,         \* worksheet "seen"
    cache,           \* st.cache_data of load_all_data_from_sheets: <<>> or <<data>>
    db_init,         \* 'db_init' is in the session's st.session_state
    user_name,       \* the session's sidebar selectbox
    vote_state,      \* the DOIs whose vote_state_{doi}_{user} is True
    trash_state,     \* the DOIs whose trash_state_{doi}_{user} is True
    shortlist_order, \* st.session_state['shortlist_order']: <<>> (absent) or <<order>>
    fetch,           \* the running fetch_papers_range call, or idle
    sub,             \* per user: a batch_update_all call followed step by step
    last             \* the last completed handler, what it returned, and whether
                     \* an exception was caught in it

vars == <<created, ws_papers, ws_interest, ws_seen, cache, db_init, user_name,
          vote_state, trash_state, shortlist_order, fetch, sub, last>>

\* ------------------------------------------------------------- sequences
Range(s) == {s[i] : i \in 1..Len(s)}

IsPrefix(s, t) == Len(s) <= Len(t) /\ SubSeq(t, 1, Len(s)) = s

\* ------------------------------------------------------------- worksheets
\* gspread get_all_records(): row 1 gives the keys, the other rows the records
get_all_records(ws) == IF Len(ws) <= 1 THEN <<>> ELSE Tail(ws)

\* pandas drop_duplicates(subset=['doi']): the first row of each doi is kept
RECURSIVE drop_duplicates(_)
drop_duplicates(rows) ==
    IF rows = <<>> THEN <<>>
    ELSE LET init == drop_duplicates(SubSeq(rows, 1, Len(rows) - 1))
             r == rows[Len(rows)]
         IN IF \E i \in 1..Len(init) : init[i].doi = r.doi THEN init ELSE Append(init, r)

\* pd.to_datetime(df['date']).dt.date: the day number of a printed date
to_datetime(d) == CHOOSE i \in 1..Len(Dates) : Dates[i] = d

\* load_all_data_from_sheets, @st.cache_data(ttl=60): the cached value if one
\* is held, the three worksheets otherwise
SheetData ==
    [papers |-> get_all_records(ws_papers),
     interest |-> get_all_records(ws_interest),
     seen |-> get_all_records(ws_seen)]

\* the value returned when the cache holds c and the worksheets hold data
loaded(c, data) == IF c # <<>> THEN c[1] ELSE data

load_all_data_from_sheets == loaded(cache, SheetData)


\* ------------------------------------------------------- get_shortlist_data
\* groupby('doi').agg(total_votes=('user','count')): the interest records of a doi
total_votes(interest, doi) ==
    Cardinality({i \in 1..Len(interest) : interest[i].doi = doi})

\* my_voted_dois / current_user_votes: the dois of the records of one user
user_votes(interest, user) ==
    {interest[i].doi : i \in {j \in 1..Len(interest) : interest[j].user = user}}

\* pd.merge(df_papers, stats, on='doi', how='inner'): the papers, in the order
\* of the papers frame, that have a stats row, each with its vote count
RECURSIVE merge(_, _)
merge(df_papers, interest) ==
    IF df_papers = <<>> THEN <<>>
    ELSE LET p == Head(df_papers)
             n == total_votes(interest, p.doi)
             rest == merge(Tail(df_papers), interest)
         IN IF n > 0
            THEN <<[doi |-> p.doi, date |-> p.date, total_votes |-> n]>> \o rest
            ELSE rest

\* row a goes before row b under by=['total_votes','date'], ascending=[False,False]
Before(a, b) ==
    \/ a.total_votes > b.total_votes
    \/ a.total_votes = b.total_votes /\ to_datetime(a.date) > to_datetime(b.date)

\* sort_values(by=['total_votes','date'], ascending=[False,False]): a stable
\* sort, rows that tie keep the order they had
RECURSIVE sort_values(_)
sort_values(rows) ==
    IF rows = <<>> THEN <<>>
    ELSE LET init == sort_values(SubSeq(rows, 1, Len(rows) - 1))
             r == rows[Len(rows)]
             k == Cardinality({i \in 1..Len(init) : ~Before(r, init[i])})
         IN SubSeq(init, 1, k) \o <<r>> \o SubSeq(init, k + 1, Len(init))

\* categorical_sort with the NaN rows dropped (C3 depends on sort_values
\* keeping the rows whose doi is no category).
categorical_sort_dropna(rows, frozen_order) ==
    LET pos(d) == CHOOSE i \in 1..Len(frozen_order) : frozen_order[i] = d
        known == {i \in 1..Len(rows) : rows[i].doi \in Range(frozen_order)}
        rank(i) == Cardinality({j \in known : pos(rows[j].doi) < pos(rows[i].doi)}) + 1
        nth(k) == CHOOSE i \in known : rank(i) = k
    IN [k \in 1..Cardinality(known) |-> rows[nth(k)]]

\* pd.Categorical(doi, categories=frozen_order, ordered=True), sort_values:
\* the rows of the frozen order first, in that order; a doi that is no
\* category is NaN and sorts last, in the order it had
categorical_sort(rows, frozen_order) ==
    LET pos(d) == CHOOSE i \in 1..Len(frozen_order) : frozen_order[i] = d
        known == {i \in 1..Len(rows) : rows[i].doi \in Range(frozen_order)}
        rank(i) == Cardinality({j \in known : pos(rows[j].doi) < pos(rows[i].doi)}) + 1
        nth(k) == CHOOSE i \in known : rank(i) = k
    IN [k \in 1..Cardinality(known) |-> rows[nth(k)]]
       \o SelectSeq(rows, LAMBDA r : r.doi \notin Range(frozen_order))

\* the shortlist before a frozen order is applied (lines 117-137)
ranked_shortlist(data) ==
    IF data.papers = <<>> \/ data.interest = <<>> THEN <<>>
    ELSE sort_values(merge(drop_duplicates(data.papers), data.interest))

\* whether get_shortlist_data reaches line 139 (no early return)
reaches_order(data) == data.papers # <<>> /\ data.interest # <<>>

\* get_shortlist_data(current_user): the rows returned, given the session's
\* 'shortlist_order' entry (order = <<>>: no entry)
get_shortlist_data(data, order, current_user) ==
    LET sorted == ranked_shortlist(data)
        rows == IF order # <<>> /\ reaches_order(data)
                THEN categorical_sort(sorted, order[1])
                ELSE sorted
    IN [i \in 1..Len(rows) |->
          [doi |-> rows[i].doi, date |-> rows[i].date,
           total_votes |-> rows[i].total_votes,
           my_vote |-> rows[i].doi \in user_votes(data.interest, current_user)]]

\* st.session_state['shortlist_order'] after get_shortlist_data (lines 139-144)
order_after(data, order) ==
    IF order = <<>> /\ reaches_order(data)
    THEN LET sorted == ranked_shortlist(data)
         IN <<[i \in 1..Len(sorted) |-> sorted[i].doi]>>
    ELSE order

\* -------------------------------------------------- get_fresh_stream_by_date
\* row a goes before row b under sort_values(by='date', ascending=False)
LaterDate(a, b) == to_datetime(a.date) > to_datetime(b.date)

RECURSIVE sort_by_date(_)
sort_by_date(rows) ==
    IF rows = <<>> THEN <<>>
    ELSE LET init == sort_by_date(SubSeq(rows, 1, Len(rows) - 1))
             r == rows[Len(rows)]
             k == Cardinality({i \in 1..Len(init) : ~LaterDate(r, init[i])})
         IN SubSeq(init, 1, k) \o <<r>> \o SubSeq(init, k + 1, Len(init))

\* the three masks of lines 172-174
fresh_mask(p, voted_dois, my_seen_dois, start_date, end_date) ==
    /\ to_datetime(p.date) >= start_date
    /\ to_datetime(p.date) <= end_date
    /\ p.doi \notin voted_dois
    /\ p.doi \notin my_seen_dois

\* get_fresh_stream_by_date with line 167 taking the dismissals of every user
\* (C5 depends on the `df_seen['user'] == current_user` of that line).
fresh_stream_seen_by_any(data, current_user, start_date, end_date) ==
    IF data.papers = <<>> THEN <<>>
    ELSE LET df_p == drop_duplicates(data.papers)
             voted_dois == {data.interest[i].doi : i \in 1..Len(data.interest)}
             my_seen_dois == {data.seen[i].doi : i \in 1..Len(data.seen)}
         IN sort_by_date(SelectSeq(df_p,
                LAMBDA p : fresh_mask(p, voted_dois, my_seen_dois, start_date, end_date)))

get_fresh_stream_by_date(data, current_user, start_date, end_date) ==
    IF data.papers = <<>> THEN <<>>
    ELSE LET df_p == drop_duplicates(data.papers)
             voted_dois == {data.interest[i].doi : i \in 1..Len(data.interest)}
             my_seen_dois ==
                 {data.seen[i].doi :
                    i \in {j \in 1..Len(data.seen) : data.seen[j].user = current_user}}
         IN sort_by_date(SelectSeq(df_p,
                LAMBDA p : fresh_mask(p, voted_dois, my_seen_dois, start_date, end_date)))

\* date_input: the ranges a user can pick, as day numbers
Windows == {w \in (1..Len(Dates)) \X (1..Len(Dates)) : w[1] <= w[2]}

\* ------------------------------------------------------------ main, render
\* What one run of main() shows and collects in all_visible_dois,
\* selected_dois and trashed_dois (lines 290-377) for a session with this
\* user, frozen order and toggles; w is the date range of the sidebar.
render(data, user, order, votes, trash, w) ==
    LET triaged == get_shortlist_data(data, order, user)
        fresh == get_fresh_stream_by_date(data, user, w[1], w[2])
        shown == [i \in 1..Len(triaged) |-> triaged[i].doi]
        fresh_dois == [i \in 1..Len(fresh) |-> fresh[i].doi]
    IN [shortlist |-> shown,
        fresh |-> fresh_dois,
        all_visible_dois |-> shown \o fresh_dois,
        \* is_effectively_selected = (db_voted != user_clicked_toggle)
        selected_dois |->
            {triaged[i].doi : i \in {j \in 1..Len(triaged) :
                                triaged[j].my_vote # (triaged[j].doi \in votes)}}
            \cup {d \in Range(fresh_dois) : d \in votes},
        trashed_dois |-> {d \in Range(fresh_dois) : d \in trash}]

\* --------------------------------------------------------- batch_update_all
\* vote_loop with line 90 dropping the rows of the doi whoever the user is
\* (C2 depends on the `& (df['user'] == user)` of that line).
RECURSIVE vote_loop_any_user(_, _, _, _, _, _)
vote_loop_any_user(df, current_user_votes, user, selected_dois, displayed, timestamp) ==
    IF displayed = <<>> THEN [df |-> df, rows_to_add |-> <<>>, changes |-> 0]
    ELSE LET before == vote_loop_any_user(df, current_user_votes, user, selected_dois,
                                 SubSeq(displayed, 1, Len(displayed) - 1), timestamp)
             doi == displayed[Len(displayed)]
             is_checked == doi \in selected_dois
             already_voted == doi \in current_user_votes
         IN IF is_checked /\ ~already_voted
            THEN [df |-> before.df,
                  rows_to_add |-> Append(before.rows_to_add,
                      [doi |-> doi, user |-> user, timestamp |-> timestamp]),
                  changes |-> before.changes + 1]
            ELSE IF ~is_checked /\ already_voted
            THEN [df |-> SelectSeq(before.df, LAMBDA r : r.doi # doi),
                  rows_to_add |-> before.rows_to_add,
                  changes |-> before.changes + 1]
            ELSE before

\* The loop of lines 81-92 over all_displayed_dois, from the frame df read at
\* line 65: the frame left, the rows to add and the number of changes.
\* current_user_votes is computed once, before the loop.
RECURSIVE vote_loop(_, _, _, _, _, _)
vote_loop(df, current_user_votes, user, selected_dois, displayed, timestamp) ==
    IF displayed = <<>> THEN [df |-> df, rows_to_add |-> <<>>, changes |-> 0]
    ELSE LET before == vote_loop(df, current_user_votes, user, selected_dois,
                                 SubSeq(displayed, 1, Len(displayed) - 1), timestamp)
             doi == displayed[Len(displayed)]
             is_checked == doi \in selected_dois
             already_voted == doi \in current_user_votes
         IN IF is_checked /\ ~already_voted
            THEN [df |-> before.df,
                  rows_to_add |-> Append(before.rows_to_add,
                      [doi |-> doi, user |-> user, timestamp |-> timestamp]),
                  changes |-> before.changes + 1]
            ELSE IF ~is_checked /\ already_voted
            THEN [df |-> SelectSeq(before.df,
                            LAMBDA r : ~(r.doi = doi /\ r.user = user)),
                  rows_to_add |-> before.rows_to_add,
                  changes |-> before.changes + 1]
            ELSE before

\* vote_delta with current_user_votes left empty: the delta is taken against
\* no recorded vote (C1 depends on line 77 reading the user's votes).
vote_delta_unread(records, user, selected_dois, displayed, timestamp) ==
    LET r == vote_loop(records, {}, user, selected_dois, displayed, timestamp)
    IN [table |-> r.df \o r.rows_to_add, changes |-> r.changes,
        modified |-> r.changes > 0]

\* lines 64-96: the frame to write back and the count, from the records read
vote_delta(records, user, selected_dois, displayed, timestamp) ==
    LET r == vote_loop(records, user_votes(records, user), user,
                       selected_dois, displayed, timestamp)
    IN [table |-> r.df \o r.rows_to_add, changes |-> r.changes,
        modified |-> r.changes > 0]

\* lines 94-100 as one rewrite: clear(), the header row, the frame's rows
rewritten(ws, delta) == IF delta.modified THEN <<InterestHeader>> \o delta.table ELSE ws

\* the orders in which a loop may walk a set (`for doi in trashed_dois`)
Orders(S) == {q \in [1..Cardinality(S) -> S] : Range(q) = S}

\* lines 103-105: trash_rows, in one order of the set
trash_rows(order, user) == [i \in 1..Len(order) |-> [doi |-> order[i], user |-> user]]

\* lines 108-109 and 228: the cache after a handler that made `changes` changes
cache_after(changes) == IF changes > 0 THEN <<>> ELSE cache

\* batch_update_all(user, selected_dois, trashed_dois, all_displayed_dois) run
\* from start to end: the two worksheets, the cache and the count after it.
batch_update_all(user, selected_dois, trash_order, displayed, timestamp) ==
    LET delta == vote_delta(get_all_records(ws_interest), user, selected_dois,
                            displayed, timestamp)
        changes_count == delta.changes + Len(trash_order)
    IN [interest |-> rewritten(ws_interest, delta),
        seen |-> ws_seen \o trash_rows(trash_order, user),
        cache |-> cache_after(changes_count),
        changes_count |-> changes_count]

\* ------------------------------------------------------------------- state
\* the locals of a call of fetch_papers_range: i counts the passes of the
\* loop that are over, raised tells whether an exception was caught in one
IdleFetch ==
    [pc |-> "idle", by |-> "-", i |-> 0, cursor |-> 0, seen_dois |-> {}, new_rows |-> <<>>,
     raised |-> FALSE]
\* the locals of a call of batch_update_all: its arguments, the frame df to
\* write back, `modified`, and changes_count
IdleSub ==
    [pc |-> "idle", selected |-> {}, displayed |-> <<>>, table |-> <<>>,
     modified |-> FALSE, trash |-> <<>>, changes |-> 0]
\* `last` before any handler ran, and after a handler that returns nothing
NoLast == [op |-> "none", by |-> "-", result |-> 0, raised |-> FALSE]
OtherLast == [op |-> "other", by |-> "-", result |-> 0, raised |-> FALSE]

Init ==
    /\ created = FALSE
    /\ ws_papers = <<>>
    /\ ws_interest = <<>>
    /\ ws_seen = <<>>
    /\ cache = <<>>
    /\ db_init = FALSE
    /\ user_name = NoUser
    /\ vote_state = {}
    /\ trash_state = {}
    /\ shortlist_order = <<>>
    /\ fetch = IdleFetch
    /\ sub = [u \in Users |-> IdleSub]
    /\ last = NoLast

\* no handler is in the middle of a run
Quiet == fetch.pc = "idle" /\ \A u \in Users : sub[u].pc = "idle"

\* the three worksheets as load_all_data_from_sheets reads them
sheets(p, i, s) ==
    [papers |-> get_all_records(p), interest |-> get_all_records(i),
     seen |-> get_all_records(s)]

\* init_db that writes the header row whether the worksheet exists or not
\* (C8 depends on the try of lines 45, 49 and 53).
init_db_anew(ws, header) == <<header>>

\* init_db (lines 43-56): a worksheet that is missing is added with its header
\* row; one that exists is left as it is
init_db(ws, header) == IF created THEN ws ELSE <<header>>

\* The first run of main() in the session: init_db, then the selectbox still
\* shows the placeholder and main returns at line 288.
PageLoad ==
    /\ Quiet
    /\ ~db_init
    /\ created' = TRUE
    /\ ws_papers' = init_db(ws_papers, PapersHeader)
    /\ ws_interest' = init_db(ws_interest, InterestHeader)
    /\ ws_seen' = init_db(ws_seen, SeenHeader)
    /\ db_init' = TRUE
    /\ last' = OtherLast
    /\ UNCHANGED <<cache, user_name, vote_state, trash_state, shortlist_order, fetch, sub>>

\* The first run of main() in another session, when it is the first of all.
OtherPageLoad ==
    /\ Quiet
    /\ ~created
    /\ created' = TRUE
    /\ ws_papers' = init_db(ws_papers, PapersHeader)
    /\ ws_interest' = init_db(ws_interest, InterestHeader)
    /\ ws_seen' = init_db(ws_seen, SeenHeader)
    /\ last' = OtherLast
    /\ UNCHANGED <<cache, db_init, user_name, vote_state, trash_state, shortlist_order,
                   fetch, sub>>

\* The session state and the cache after a run of main() that renders from
\* `data` (lines 294 and 348).
Rendered(data) ==
    /\ cache' = <<data>>
    /\ shortlist_order' = order_after(data, shortlist_order)

\* The user picks their name in the selectbox (the session keeps the name).
SelectUser ==
    /\ Quiet
    /\ db_init
    /\ user_name = NoUser
    /\ user_name' = Me
    /\ Rendered(load_all_data_from_sheets)
    /\ last' = OtherLast
    /\ UNCHANGED <<created, ws_papers, ws_interest, ws_seen, db_init, vote_state,
                   trash_state, fetch, sub>>

\* A run of main() with no button pressed (a page refresh, the abstract
\* toggle, a new date range).
Rerun ==
    /\ Quiet
    /\ user_name # NoUser
    /\ Rendered(load_all_data_from_sheets)
    /\ last' = OtherLast
    /\ UNCHANGED <<created, ws_papers, ws_interest, ws_seen, db_init, user_name,
                   vote_state, trash_state, fetch, sub>>

Toggle(S, d) == IF d \in S THEN S \ {d} ELSE S \cup {d}

\* the widest date range (a narrower one shows a part of its fresh stream)
Widest == <<1, Len(Dates)>>

\* what the session shows for date range w
my_render(w) ==
    render(load_all_data_from_sheets, user_name, shortlist_order, vote_state,
           trash_state, w)

\* The vote button of a paper shown for some date range, that is, for the
\* widest (lines 335-337, 383-385): the toggle flips and the script runs again.
ClickVote(d) ==
    /\ Quiet
    /\ user_name # NoUser
    /\ d \in Range(my_render(Widest).all_visible_dois)
    /\ vote_state' = Toggle(vote_state, d)
    /\ Rendered(load_all_data_from_sheets)
    /\ last' = OtherLast
    /\ UNCHANGED <<created, ws_papers, ws_interest, ws_seen, db_init, user_name,
                   trash_state, fetch, sub>>

\* The trash button of a paper of the fresh stream (lines 388-390).
ClickTrash(d) ==
    /\ Quiet
    /\ user_name # NoUser
    /\ d \in Range(my_render(Widest).fresh)
    /\ trash_state' = Toggle(trash_state, d)
    /\ Rendered(load_all_data_from_sheets)
    /\ last' = OtherLast
    /\ UNCHANGED <<created, ws_papers, ws_interest, ws_seen, db_init, user_name,
                   vote_state, fetch, sub>>

\* the worksheets a Submit leaves are within the bounds
Fits(b) == Len(b.interest) <= MaxVotes + 1 /\ Len(b.seen) <= MaxSeen + 1

\* Submit without lines 403-405 (C10 depends on the reset).
reset_keys_kept(state) == state

\* keys_to_reset (lines 403-405): a toggle set of the session after Submit
reset_keys(state) == {}

\* Submit without the `del` of line 410: the rerun keeps the frozen order
\* (C6 depends on the order being frozen anew after a Submit with changes).
order_after_submit_kept(changes, shown, again) == order_after(shown, shortlist_order)

\* The frozen order after Submit: deleted when there were changes (lines
\* 407-411) and set again by the run st.rerun() starts.
order_after_submit(changes, shown, again) ==
    IF changes > 0 THEN order_after(again, <<>>)
    ELSE order_after(shown, shortlist_order)

\* "Submit Votes" (lines 400-413), with the render of the same run that
\* collects the lists, batch_update_all, and the run st.rerun() starts.
Submit ==
    /\ Quiet
    /\ user_name # NoUser
    /\ \E w \in Windows, timestamp \in Clock, shown \in {load_all_data_from_sheets} :
         \E r \in {my_render(w)} :
           \E order \in Orders(r.trashed_dois) :
             \E b \in {batch_update_all(user_name, r.selected_dois, order,
                                        r.all_visible_dois, timestamp)} :
               \E again \in {loaded(b.cache, sheets(ws_papers, b.interest, b.seen))} :
                 /\ Fits(b)
                 /\ ws_interest' = b.interest
                 /\ ws_seen' = b.seen
                 /\ cache' = IF b.changes_count > 0 THEN <<again>> ELSE <<shown>>
                 /\ shortlist_order' = order_after_submit(b.changes_count, shown, again)
                 /\ last' = [op |-> "submit", by |-> "me", result |-> b.changes_count,
                             raised |-> FALSE]
    /\ vote_state' = reset_keys(vote_state)
    /\ trash_state' = reset_keys(trash_state)
    /\ UNCHANGED <<created, ws_papers, db_init, user_name, fetch, sub>>

\* Submit in the session of another lab member u (the same handler).  Its
\* toggles can make any shown paper selected and any fresh paper trashed, and
\* its date range is the widest.  It holds no frozen order: one would only
\* change the order of the rows a Submit appends, which Submits one after the
\* other give as well.
OtherSubmit(u) ==
    /\ Quiet
    /\ created
    /\ \E timestamp \in Clock, shown \in {load_all_data_from_sheets} :
         \E r \in {render(shown, u, <<>>, {}, {}, Widest)} :
           \E selected_dois \in SUBSET Range(r.all_visible_dois),
              trashed_dois \in SUBSET Range(r.fresh) :
             \E order \in Orders(trashed_dois) :
               \E b \in {batch_update_all(u, selected_dois, order,
                                          r.all_visible_dois, timestamp)} :
                 \E again \in {loaded(b.cache, sheets(ws_papers, b.interest, b.seen))} :
                   /\ Fits(b)
                   /\ ws_interest' = b.interest
                   /\ ws_seen' = b.seen
                   /\ cache' = IF b.changes_count > 0 THEN <<again>> ELSE <<shown>>
    /\ last' = OtherLast
    /\ UNCHANGED <<created, ws_papers, db_init, user_name, vote_state, trash_state,
                   shortlist_order, fetch, sub>>

\* ttl=60: the cached value expires, whatever the sessions are doing
Expire ==
    /\ cache # <<>>
    /\ cache' = <<>>
    /\ UNCHANGED <<created, ws_papers, ws_interest, ws_seen, db_init, user_name,
                   vote_state, trash_state, shortlist_order, fetch, sub, last>>

\* ------------------------------------------------------- fetch_papers_range
\* The collections a page of the API may hold (at most PageSize items).
RECURSIVE SeqsUpTo(_, _)
SeqsUpTo(S, n) ==
    IF n = 0 THEN {<<>>}
    ELSE LET shorter == SeqsUpTo(S, n - 1)
         IN shorter \cup {Append(q, x) : q \in {t \in shorter : Len(t) = n - 1}, x \in S}

Pages == SeqsUpTo(ApiPapers, PageSize)

\* What requests.get(url).json() may give: an exception, or a response with
\* its first message's status and its collection.
Responses ==
    {[raises |-> TRUE, status |-> "-", collection |-> <<>>]}
    \cup {[raises |-> FALSE, status |-> "no posts found", collection |-> <<>>]}
    \cup {[raises |-> FALSE, status |-> "ok", collection |-> c] : c \in Pages}

\* str.lower() of a category
lower(category) == IF category = "Neuroscience" THEN "neuroscience" ELSE category

\* The row appended for item p (lines 215-216).
paper_row(p) == [doi |-> p.doi, title |-> p.title, category |-> p.category, date |-> p.date]

\* The loop of lines 211-217 over a page: seen_dois and new_rows after it, and
\* whether an item raised (None has no lower()); the items before the one
\* that raises are processed, those after it are not.
RECURSIVE scan(_, _, _)
scan(papers, seen_dois, new_rows) ==
    IF papers = <<>>
    THEN [seen_dois |-> seen_dois, new_rows |-> new_rows, raised |-> FALSE]
    ELSE LET p == Head(papers)
         IN IF p.category = NoneCat
            THEN [seen_dois |-> seen_dois, new_rows |-> new_rows, raised |-> TRUE]
            ELSE IF lower(p.category) = "neuroscience" /\ p.doi \notin seen_dois
            THEN scan(Tail(papers), seen_dois \cup {p.doi}, Append(new_rows, paper_row(p)))
            ELSE scan(Tail(papers), seen_dois, new_rows)

\* fetch_papers_range that starts from an empty seen_dois (C7 depends on
\* lines 190-192 reading the worksheet).
existing_dois_unread == {}

\* seen_dois of lines 190-194: the dois of the papers worksheet
existing_dois ==
    LET existing_data == get_all_records(ws_papers)
    IN {existing_data[k].doi : k \in 1..Len(existing_data)}

\* "Load Papers" is pressed, in the session ("me") or in another one: lines
\* 184-197, up to the loop.
FetchBegin(by) ==
    /\ Quiet
    /\ IF by = "me" THEN db_init ELSE created
    /\ fetch' = [pc |-> "loop", by |-> by, i |-> 0, cursor |-> 0,
                 seen_dois |-> existing_dois, new_rows |-> <<>>, raised |-> FALSE]
    /\ UNCHANGED <<created, ws_papers, ws_interest, ws_seen, cache, db_init, user_name,
                   vote_state, trash_state, shortlist_order, sub, last>>

\* whether the response's collection is scanned (lines 206-209)
scans(resp) ==
    ~resp.raises /\ resp.status # "no posts found" /\ resp.collection # <<>>

\* the loop going on whenever the page is full, an exception or not
\* (C9 depends on the `except Exception: break` of line 222).
continues_after_error(resp, scanned, i) ==
    /\ ~resp.raises
    /\ Len(resp.collection) >= PageSize
    /\ i + 1 < MaxPages

\* whether the loop goes on to another page after this response; i counts the
\* passes made before this one (lines 202, 219-222)
continues(resp, scanned, i) ==
    /\ scans(resp)
    /\ ~scanned.raised
    /\ Len(resp.collection) >= PageSize
    /\ i + 1 < MaxPages

\* lines 226-230: the worksheet after the call
appended(ws, new_rows) == ws \o new_rows

\* lines 226-230: the count the call returns
returned(new_rows) == Len(new_rows)

\* Lines 226-230 and the run st.rerun() starts (line 282): the rows are
\* appended, the cache is cleared, the count is returned; the new run renders
\* if its session has a user.  `raised` tells whether the loop ended in the
\* except clause of line 222.
FetchEnd(new_rows, raised) ==
    \E papers_after \in {appended(ws_papers, new_rows)}, cleared \in {cache_after(Len(new_rows))} :
     \E again \in {loaded(cleared, sheets(papers_after, ws_interest, ws_seen))} :
       /\ ws_papers' = papers_after
       /\ fetch' = IdleFetch
       /\ last' = [op |-> "fetch", by |-> fetch.by, result |-> returned(new_rows),
                   raised |-> raised]
       /\ IF fetch.by = "me"
          THEN IF user_name # NoUser
               THEN Rendered(again)
               ELSE cache' = cleared /\ UNCHANGED shortlist_order
          ELSE /\ cache' \in {cleared, <<again>>}
               /\ UNCHANGED shortlist_order

\* One pass of the loop body (lines 203-222): a page is requested and
\* scanned; the loop then goes on, or ends and the rows are appended.
FetchPage ==
    /\ fetch.pc = "loop"
    /\ \E resp \in Responses :
         \E scanned \in {IF scans(resp)
                         THEN scan(resp.collection, fetch.seen_dois, fetch.new_rows)
                         ELSE [seen_dois |-> fetch.seen_dois,
                               new_rows |-> fetch.new_rows, raised |-> FALSE]} :
            IF continues(resp, scanned, fetch.i)
            THEN /\ fetch' = [fetch EXCEPT !.i = @ + 1,
                                           !.cursor = @ + Len(resp.collection),
                                           !.seen_dois = scanned.seen_dois,
                                           !.new_rows = scanned.new_rows,
                                           !.raised = resp.raises \/ scanned.raised]
                 /\ UNCHANGED <<ws_papers, cache, shortlist_order, last>>
            ELSE FetchEnd(scanned.new_rows, resp.raises \/ scanned.raised)
    /\ UNCHANGED <<created, ws_interest, ws_seen, db_init, user_name, vote_state,
                   trash_state, sub>>

\* ------------------------------------------------------------ the page
\* The worksheets once the page was opened and papers were loaded: two papers
\* of different dates (a state SpecFetch reaches).
TwoPapers ==
    <<PapersHeader,
      [doi |-> "d1", title |-> "T1", category |-> "neuroscience", date |-> Dates[1]],
      [doi |-> "d2", title |-> "T2", category |-> "Neuroscience", date |-> Dates[2]]>>

InitVote ==
    /\ created = TRUE
    /\ ws_papers = TwoPapers
    /\ ws_interest = <<InterestHeader>>
    /\ ws_seen = <<SeenHeader>>
    /\ cache = <<>>
    /\ db_init = TRUE
    /\ user_name = NoUser
    /\ vote_state = {}
    /\ trash_state = {}
    /\ shortlist_order = <<>>
    /\ fetch = IdleFetch
    /\ sub = [u \in Users |-> IdleSub]
    /\ last = OtherLast

\* Voting and dismissing over the loaded papers, every handler run to its end.
\* Each handler that writes clears the cache and each run that renders loads
\* it, so here a held cache always holds the worksheets as they are
\* (CacheInSync) and its expiry, which would change nothing a run reads, is
\* left to the other specifications.
NextVote ==
    \/ SelectUser
    \/ Rerun
    \/ \E d \in DOIs : ClickVote(d)
    \/ \E d \in DOIs : ClickTrash(d)
    \/ Submit
    \/ \E u \in Users : OtherSubmit(u)

SpecVote == InitVote /\ [][NextVote]_vars

\* a held cache holds what the worksheets hold
CacheInSync == cache # <<>> => cache[1] = SheetData

\* Opening the page and loading papers, with another member submitting.
NextFetch ==
    \/ PageLoad
    \/ OtherPageLoad
    \/ \E by \in {"me", "other"} : FetchBegin(by)
    \/ FetchPage
    \/ SelectUser
    \/ \E u \in Users \ {Me} : OtherSubmit(u)
    \/ Expire

SpecFetch == Init /\ [][NextFetch]_vars

\* ------------------------------------------- batch_update_all on its own
\* The vote records a worksheet may hold before the call: any rows, the same
\* (doi, user) pair twice included.
VoteRows == {[doi |-> d, user |-> u, timestamp |-> t] : d \in DOIs, u \in Users, t \in Timestamps}

InitBatch ==
    /\ created = TRUE
    /\ ws_papers = TwoPapers
    /\ ws_interest \in {<<InterestHeader>> \o t : t \in SeqsUpTo(VoteRows, MaxRows)}
    /\ ws_seen = <<SeenHeader>>
    /\ cache = <<sheets(ws_papers, ws_interest, ws_seen)>>
    /\ db_init = TRUE
    /\ user_name = NoUser
    /\ vote_state = {}
    /\ trash_state = {}
    /\ shortlist_order = <<>>
    /\ fetch = IdleFetch
    /\ sub = [u \in Users |-> IdleSub]
    /\ last = NoLast

\* One call batch_update_all(user, selected_dois, trashed_dois,
\* all_displayed_dois) with any arguments; `sub` keeps them.
BatchCall(user) ==
    /\ \A u \in Users : sub[u].pc = "idle"
    /\ \E selected_dois \in SUBSET DOIs, trashed_dois \in SUBSET DOIs,
          displayed \in SeqsUpTo(DOIs, MaxShown), timestamp \in Timestamps :
         \E order \in Orders(trashed_dois) :
           \E b \in {batch_update_all(user, selected_dois, order, displayed, timestamp)} :
             /\ ws_interest' = b.interest
             /\ ws_seen' = b.seen
             /\ cache' = b.cache
             /\ last' = [op |-> "batch", by |-> user, result |-> b.changes_count,
                         raised |-> FALSE]
             /\ sub' = [sub EXCEPT ![user] =
                           [pc |-> "done", selected |-> selected_dois,
                            displayed |-> displayed, table |-> get_all_records(b.interest),
                            modified |-> b.interest # ws_interest, trash |-> order,
                            changes |-> b.changes_count]]
    /\ UNCHANGED <<created, ws_papers, db_init, user_name, vote_state, trash_state,
                   shortlist_order, fetch>>

NextBatch == \E user \in Users : BatchCall(user)

SpecBatch == InitBatch /\ [][NextBatch]_vars

\* ------------------------------------------------- Submits that overlap
\* Each Sheets call of batch_update_all is a request of its own, and Streamlit
\* runs each session's script in its own thread: between two calls of one
\* Submit, calls of another Submit can be served.

\* a vote of the session's member, recorded earlier
OneVote == <<InterestHeader, [doi |-> "d1", user |-> Me, timestamp |-> "10:00:00"]>>

InitConc ==
    /\ created = TRUE
    /\ ws_papers = TwoPapers
    /\ ws_interest \in {<<InterestHeader>>, OneVote}
    /\ ws_seen = <<SeenHeader>>
    /\ cache = <<>>
    /\ db_init = TRUE
    /\ user_name = NoUser
    /\ vote_state = {}
    /\ trash_state = {}
    /\ shortlist_order = <<>>
    /\ fetch = IdleFetch
    /\ sub = [u \in Users |-> IdleSub]
    /\ last = NoLast

\* Member u presses Submit: the run renders (lines 290-377), calls
\* batch_update_all, which reads the interest worksheet (line 65) and computes
\* the frame to write (lines 66-96).
SubmitRead(u) ==
    /\ sub[u].pc = "idle"
    /\ \E timestamp \in Clock, shown \in {load_all_data_from_sheets} :
         \E r \in {render(shown, u, <<>>, {}, {}, Widest)} :
           \E selected_dois \in SUBSET Range(r.all_visible_dois),
              trashed_dois \in SUBSET Range(r.fresh) :
             \E order \in Orders(trashed_dois) :
               \E delta \in {vote_delta(get_all_records(ws_interest), u, selected_dois,
                                         r.all_visible_dois, timestamp)} :
                 /\ sub' = [sub EXCEPT ![u] =
                               [pc |-> "read", selected |-> selected_dois,
                                displayed |-> r.all_visible_dois, table |-> delta.table,
                                modified |-> delta.modified, trash |-> order,
                                changes |-> delta.changes + Len(order)]]
                 /\ cache' = <<shown>>
    /\ UNCHANGED <<created, ws_papers, ws_interest, ws_seen, db_init, user_name,
                   vote_state, trash_state, shortlist_order, fetch, last>>

\* line 97: ws_interest.clear()
SubmitClear(u) ==
    /\ sub[u].pc = "read"
    /\ sub[u].modified
    /\ ws_interest' = <<>>
    /\ sub' = [sub EXCEPT ![u].pc = "cleared"]
    /\ UNCHANGED <<created, ws_papers, ws_seen, cache, db_init, user_name, vote_state,
                   trash_state, shortlist_order, fetch, last>>

\* line 98: ws_interest.append_row(header), after the last row of the sheet
SubmitHeader(u) ==
    /\ sub[u].pc = "cleared"
    /\ ws_interest' = Append(ws_interest, InterestHeader)
    /\ sub' = [sub EXCEPT ![u].pc = "headed"]
    /\ UNCHANGED <<created, ws_papers, ws_seen, cache, db_init, user_name, vote_state,
                   trash_state, shortlist_order, fetch, last>>

\* lines 99-100: ws_interest.append_rows(df.values.tolist()) if df has rows;
\* the rewrite of this call is finished.
SubmitRows(u) ==
    /\ sub[u].pc = "headed"
    /\ ws_interest' = ws_interest \o sub[u].table
    /\ sub' = [sub EXCEPT ![u].pc = "written"]
    /\ last' = [op |-> "rewrite", by |-> u, result |-> sub[u].changes, raised |-> FALSE]
    /\ UNCHANGED <<created, ws_papers, ws_seen, cache, db_init, user_name, vote_state,
                   trash_state, shortlist_order, fetch>>

\* lines 103-111 and 407-413: the dismissals are appended, the cache is
\* cleared if there were changes, and the run st.rerun() starts loads again.
SubmitFinish(u) ==
    /\ \/ sub[u].pc = "written"
       \/ sub[u].pc = "read" /\ ~sub[u].modified
    /\ Len(ws_seen) + Len(sub[u].trash) <= MaxSeen + 1
    /\ ws_seen' = ws_seen \o trash_rows(sub[u].trash, u)
    /\ cache' = IF sub[u].changes > 0
                THEN <<sheets(ws_papers, ws_interest, ws_seen')>>
                ELSE cache
    /\ sub' = [sub EXCEPT ![u].pc = "done"]
    /\ UNCHANGED <<created, ws_papers, ws_interest, db_init, user_name, vote_state,
                   trash_state, shortlist_order, fetch, last>>

NextConc ==
    \/ \E u \in Users : SubmitRead(u)
    \/ \E u \in Users : SubmitClear(u)
    \/ \E u \in Users : SubmitHeader(u)
    \/ \E u \in Users : SubmitRows(u)
    \/ \E u \in Users : SubmitFinish(u)
    \/ Expire

SpecConc == InitConc /\ [][NextConc]_vars

\* ------------------------------------------------------------------ claims
\* C1: after any sequence of completed Submits by any lab members, the
\* interest worksheet holds at most one vote record for each (doi, user) pair.
C1_OneVotePerPair ==
    LET votes == get_all_records(ws_interest)
    IN \A i, j \in 1..Len(votes) :
         (votes[i].doi = votes[j].doi /\ votes[i].user = votes[j].user) => i = j

\* C1 case: the session's Submit made changes and left three vote records, two
\* members on one paper and one member on two papers among them.
C1_Witness ==
    LET votes == get_all_records(ws_interest)
    IN /\ last.op = "submit" /\ last.by = "me" /\ last.result > 0
       /\ Len(votes) = 3
       /\ \E i, j \in 1..Len(votes) : votes[i].doi = votes[j].doi /\ votes[i].user # votes[j].user
       /\ \E i, j \in 1..Len(votes) : votes[i].doi # votes[j].doi /\ votes[i].user = votes[j].user

\* the orders a session may hold frozen: any order of any set of papers
FrozenOrders == {<<q>> : q \in UNION {Orders(S) : S \in SUBSET DOIs}}

\* C3: a paper of the papers worksheet that has one or more vote records is
\* among the rows get_shortlist_data returns, for every lab member, whatever
\* dismissals are recorded and whether the session holds a frozen order (the
\* session's own, or any other) or none.
C3_VotedPaperShortlisted ==
    LET papers == get_all_records(ws_papers)
        votes == get_all_records(ws_interest)
    IN \A u \in Users, order \in {<<>>, shortlist_order} \cup FrozenOrders :
         LET rows == get_shortlist_data(load_all_data_from_sheets, order, u)
         IN \A i \in 1..Len(papers) :
              (\E j \in 1..Len(votes) : votes[j].doi = papers[i].doi)
              => \E k \in 1..Len(rows) : rows[k].doi = papers[i].doi

\* C3 case: the session holds a frozen order, and a paper that is not in it
\* has a vote and a dismissal.
C3_Witness ==
    LET votes == get_all_records(ws_interest)
        seen == get_all_records(ws_seen)
    IN /\ user_name # NoUser
       /\ shortlist_order # <<>>
       /\ \E j \in 1..Len(votes), k \in 1..Len(seen) :
             /\ votes[j].doi = seen[k].doi
             /\ votes[j].doi \notin Range(shortlist_order[1])

\* C5: for every user u and date range, get_fresh_stream_by_date returns
\* exactly (each once) the papers dated within the range that have no vote of
\* anyone and no dismissal of u; the dismissals of others do not count.
C5_FreshStreamExact ==
    LET papers == get_all_records(ws_papers)
        votes == get_all_records(ws_interest)
        seen == get_all_records(ws_seen)
    IN \A u \in Users, w \in Windows :
         LET rows == get_fresh_stream_by_date(load_all_data_from_sheets, u, w[1], w[2])
             expected ==
                 {p \in Range(papers) :
                    /\ to_datetime(p.date) \in w[1]..w[2]
                    /\ \A j \in 1..Len(votes) : votes[j].doi # p.doi
                    /\ \A k \in 1..Len(seen) : ~(seen[k].doi = p.doi /\ seen[k].user = u)}
         IN Range(rows) = expected /\ Len(rows) = Cardinality(expected)

\* C5 case: a paper dismissed by one member only is in the fresh stream of
\* another, while the other paper, which has a vote, is in nobody's.
C5_Witness ==
    LET votes == get_all_records(ws_interest)
        seen == get_all_records(ws_seen)
    IN \E u, v \in Users, k \in 1..Len(seen) :
         /\ u # v
         /\ seen[k].user = v
         /\ LET rows == get_fresh_stream_by_date(load_all_data_from_sheets, u, 1, Len(Dates))
            IN \E i \in 1..Len(rows) : rows[i].doi = seen[k].doi
         /\ votes # <<>>

\* the shortlist a run of main() shows in the session goes by vote count,
\* highest first, counted on the interest worksheet as it is
Ranked ==
    LET shown == my_render(Widest).shortlist
        votes == get_all_records(ws_interest)
        n(d) == Cardinality({i \in 1..Len(votes) : votes[i].doi = d})
    IN \A i, j \in 1..Len(shown) : i < j => n(shown[i]) >= n(shown[j])

\* the shortlist a run of main() shows in the session keeps the frozen order:
\* the papers of the order in that order, the others after them
FrozenKept ==
    LET shown == my_render(Widest).shortlist
        frozen_order == shortlist_order[1]
        pos(d) == CHOOSE k \in 1..Len(frozen_order) : frozen_order[k] = d
    IN shortlist_order # <<>> =>
         \A i, j \in 1..Len(shown) :
            i < j =>
              /\ shown[j] \in Range(frozen_order) => shown[i] \in Range(frozen_order)
              /\ (shown[i] \in Range(frozen_order) /\ shown[j] \in Range(frozen_order))
                    => pos(shown[i]) < pos(shown[j])

\* C6 as stated: whenever the session has a user, the shortlist a run of
\* main() shows is ordered by the vote counts currently recorded, also after
\* other members submitted votes.
C6_AlwaysRanked == user_name # NoUser => Ranked

\* C6 as the code has it: the shortlist is ordered by the current vote counts
\* on a run in which the session holds no shortlist_order (the first run that
\* finds votes) and on the run a Submit of the session that made changes
\* ends with; on every other run it keeps the order frozen then (papers voted
\* since come last), whatever the counts have become.
C6_RankedWhenFrozen ==
    /\ shortlist_order = <<>> => Ranked
    /\ (last.op = "submit" /\ last.by = "me" /\ last.result > 0) => Ranked
    /\ user_name # NoUser => FrozenKept

\* C6 case: the session shows a frozen order that the votes submitted since
\* no longer rank.
C6_Witness == user_name # NoUser /\ shortlist_order # <<>> /\ FrozenKept /\ ~Ranked

\* C10: a Submit of the session taken when its last completed handler was its
\* own Submit (no click and no other writer since) changes no row of the
\* interest and seen worksheets and reports 0 changes.
C10_SecondSubmitNoChange ==
    [][(last.op = "submit" /\ last.by = "me" /\ Submit) =>
          (ws_interest' = ws_interest /\ ws_seen' = ws_seen /\ last'.result = 0)]_vars

\* C10 case: the session's Submit recorded a vote and a dismissal of its
\* member and reset the toggles; a second Submit can follow at once.
C10_Witness ==
    LET votes == get_all_records(ws_interest)
        seen == get_all_records(ws_seen)
    IN /\ last.op = "submit" /\ last.by = "me" /\ last.result >= 2
       /\ vote_state = {} /\ trash_state = {}
       /\ \E j \in 1..Len(votes) : votes[j].user = user_name
       /\ \E k \in 1..Len(seen) : seen[k].user = user_name

\* no doi is in more than one row of the papers worksheet
NoDuplicatePaper ==
    LET papers == get_all_records(ws_papers)
    IN \A i, j \in 1..Len(papers) : papers[i].doi = papers[j].doi => i = j

\* C7: after any sequence of fetch_papers_range calls, whatever the pages hold
\* (a doi twice in a page, in two pages, in two calls), no doi is in more than
\* one row of the papers worksheet, and the count a call returns is the
\* number of rows the call appended.
C7_FetchDedupes ==
    /\ []NoDuplicatePaper
    /\ [][(fetch.pc = "loop" /\ fetch'.pc = "idle") =>
            /\ last'.op = "fetch"
            /\ last'.result = Len(ws_papers') - Len(ws_papers)]_vars

\* C7 case: a call that ended without an exception appended one paper to a
\* worksheet that held another.
C7_Witness ==
    LET papers == get_all_records(ws_papers)
    IN /\ last.op = "fetch" /\ last.result = 1 /\ ~last.raised
       /\ Len(papers) = 2
       /\ papers[1].doi # papers[2].doi

\* C8: no step of the application (init_db, fetch_papers_range,
\* batch_update_all, a run of main() that renders) changes or removes a row
\* the papers worksheet holds; rows are only added after the last one.
C8_PapersOnlyGrow == [][IsPrefix(ws_papers, ws_papers')]_vars

\* C8 case: fetched papers are in the worksheet, a member voted, the session
\* rendered, and a later call of fetch_papers_range has ended.
C8_Witness ==
    /\ Len(ws_papers) = 3
    /\ Len(ws_interest) > 1
    /\ user_name # NoUser
    /\ cache # <<>>
    /\ last.op = "fetch" /\ last.result = 0

\* C9: an exception in a page request or in the processing of a page ends the
\* loop (no pass follows one that raised), the call still returns its count,
\* the rows collected before the exception are appended and counted, and no
\* call makes more than 5 page requests.
C9_ErrorTruncates ==
    [][/\ fetch'.pc = "loop" => (~fetch'.raised /\ fetch'.i < MaxPages)
       /\ (fetch.pc = "loop" /\ fetch'.pc = "idle") =>
            /\ last'.op = "fetch"
            /\ IsPrefix(ws_papers \o fetch.new_rows, ws_papers')
            /\ last'.result = Len(ws_papers') - Len(ws_papers)
            /\ last'.result >= Len(fetch.new_rows)]_vars

\* C9 case: a call ended by an exception returned a count above zero.
C9_Witness == last.op = "fetch" /\ last.raised /\ last.result > 0

\* C2: a completed call batch_update_all(user, selected, trashed, displayed)
\* leaves, for every displayed doi d, a vote (d, user) if and only if d is
\* selected; the votes of that user for dois not displayed and every vote of
\* every other user are as they were, rows and order.
C2_DeltaApplied ==
    [][\A user \in Users :
         (sub[user].pc = "idle" /\ sub'[user].pc = "done") =>
           LET before == get_all_records(ws_interest)
               after == get_all_records(ws_interest')
               shown == Range(sub'[user].displayed)
               others(r) == r.user # user \/ r.doi \notin shown
           IN /\ \A d \in shown :
                   (\E i \in 1..Len(after) : after[i].doi = d /\ after[i].user = user)
                   <=> d \in sub'[user].selected
              /\ SelectSeq(after, others) = SelectSeq(before, others)]_vars

\* C2 case: a call that dismissed nothing made two vote changes, one vote
\* added and one removed, beside a vote of another user.
C2_Witness ==
    LET after == get_all_records(ws_interest)
    IN \E user \in Users :
         /\ sub[user].pc = "done"
         /\ sub[user].trash = <<>>
         /\ sub[user].changes = 2
         /\ Len(sub[user].displayed) = 2
         /\ Cardinality(sub[user].selected \cap Range(sub[user].displayed)) = 1
         /\ \E i \in 1..Len(after) : after[i].user # user

\* C4: once the Submits of the two members are over, the interest worksheet
\* holds the table computed by the member whose rewrite ended last, and
\* nothing else.
C4_LastWriteWins ==
    ((\A u \in Users : sub[u].pc = "done") /\ last.op = "rewrite")
    => get_all_records(ws_interest) = sub[last.by].table

\* C4 case: both Submits are over, both rewrote the worksheet, and the
\* worksheet holds records of both rewrites.
C4_Merged ==
    LET votes == get_all_records(ws_interest)
    IN /\ \A u \in Users : sub[u].pc = "done" /\ sub[u].modified
       /\ Len(votes) > Len(sub[last.by].table)
=============================================================================
